---- MODULE Spec2Model ----
(***************************************************************************)
(* Model of src/pg_utils.py: the PGUtils connection manager and query      *)
(* executor, one instance together with the database server and driver    *)
(* (psycopg2) it talks to.                                                 *)
(*                                                                         *)
(* The driver and the server are the environment: a connection object is  *)
(* "open", "broken" (the server went away under it) or "closed"; a        *)
(* statement that fails inside a transaction (autocommit off) leaves the  *)
(* transaction aborted, and every later statement on that connection      *)
(* fails until a rollback, which the program never issues.                *)
(*                                                                         *)
(* On top of it, src/server.py: the two GET handlers run one at a time on  *)
(* the event loop (they are async and never await), each with a PGUtils of *)
(* its own; a FileResponse is sent, and its file read, after the handler   *)
(* has returned.  Spec and FairSpec are the instance alone, ServerSpec and *)
(* UiDataSpec the requests, BuildSpec the statement built for a request.   *)
(***************************************************************************)
EXTENDS Integers, Sequences, FiniteSets, TLC

\* ---------------------------------------------------------------- bounds
MaxConns == 2      \* connection objects alive at once in the model
MaxOutages == 1    \* times the server leaves the "up" state
MaxRetries == 2    \* failed connect attempts explored per call
MaxRows == 2       \* rows a SELECT produces
MaxReqs == 2       \* HTTP requests in flight
MaxLimit == 5      \* largest limit a request asks for
DefaultLimit == 4  \* server.py: Query(default=4)

VARIABLES
    db,            \* server: "up", "down", or "degraded" (answers, but the version query yields no row)
    outages,       \* number of times the server has left "up"
    validParams,   \* the connection string names an existing database and credentials
    conns,         \* driver connection objects: id -> [status, aborted, autocommit]
    pc,            \* position of the caller's thread
    caller,        \* which operation called get_db_connection
    conn,          \* self.conn   (0 is None, else a connection id)
    cursor,        \* self.cursor (0 is None, else the id of the connection it was created from)
    auto_commit,   \* self.auto_commit
    good_conn,     \* local of get_db_connection
    sql_stmt,      \* argument of exec_sql
    is_select,     \* argument of exec_sql
    lastOp,        \* the operation that returned last
    ret,           \* its return value
    exc,           \* the exception it raised to its caller, "none" if it returned
    execRet,       \* what exec_sql returned (to its caller, possibly get_terria_map_catalog_data)
    raised,        \* the driver raised inside exec_sql's try block
    produced,      \* the rows the database produced for the last fetchall
    fails,         \* loop iterations of the current get_db_connection call that failed
    logs,          \* 'DB Connection failed. Retrying...' lines of the current call
    sleeps,        \* time.sleep(5) calls of the current call
    curCloseTried, \* __del__ called cursor.close()
    conCloseTried, \* __del__ called conn.close()
    query,         \* server.py: the query string of the request whose statement is built
    hargs,         \* server.py: the handler's parameters of that request
    statement,     \* pg_utils.py: the sql handed to exec_sql for that request
    hpc,           \* server.py: how far the statement of that request has got
    onLoop,        \* server.py: the request whose handler holds the event loop (0: none)
    req,           \* server.py: the requests, each [state, ep, file, failed, result, status, body]
    files          \* server.py: the files in the output directory, name -> content

vars == <<db, outages, validParams, conns, pc, caller, conn, cursor, auto_commit,
          good_conn, sql_stmt, is_select, lastOp, ret, exc, execRet, raised,
          produced, fails, logs, sleeps, curCloseTried, conCloseTried, query, hargs, statement,
          hpc, onLoop, req, files>>

\* ------------------------------------------------------- Python values
PyNone == [tag |-> "None"]
PyBool(b) == [tag |-> "bool", b |-> b]
PyInt(n) == [tag |-> "int", n |-> n]
PyList(s) == [tag |-> "list", rows |-> s]
PyVal(v) == [tag |-> "val", v |-> v]

\* Python truthiness of the values check_db_connection can return
Truthy(x) == x = PyBool(TRUE)

ConnIds == 1..MaxConns
Stmts == {"select", "dml", "bad"}
\* a row has two columns
Row == {<<1, 2>>, <<2, 1>>}
Tables == UNION {[1..n -> Row] : n \in 0..MaxRows}

ReqIds == 1..MaxReqs
FileNames == {"apsviz.json", "out.json"}
Absent == [tag |-> "absent"]
\* json.dump / JSONResponse.render: the JSON text of a value
JsonDump(v) == [tag |-> "json", of |-> v]
PyStr(t) == [tag |-> "str", s |-> t]
NoReq == [state |-> "pending", ep |-> "none", file |-> "none", failed |-> FALSE,
          result |-> PyNone, status |-> 0, body |-> Absent]

\* a query parameter the request does not carry
Omitted == [tag |-> "omitted"]
Filters == {"grid_type", "event_type", "instance_name", "run_date", "end_date"}
FilterTexts == {"", "a"}
QueryFilters == {Omitted} \cup {PyStr(t) : t \in FilterTexts}
QueryLimits == {Omitted} \cup {PyInt(n) : n \in 0..MaxLimit}
Queries == [ep : {"data", "file"}, grid_type : QueryFilters, event_type : QueryFilters,
            instance_name : QueryFilters, run_date : QueryFilters,
            end_date : QueryFilters, limit : QueryLimits]
NoQuery == [ep |-> "none"]

NoConn == [status |-> "unused", aborted |-> FALSE, autocommit |-> FALSE]
\* a session nothing refers to any more
Leaked == [status |-> "open", aborted |-> FALSE, autocommit |-> FALSE]

GdcPcs == {"gdc_check", "gdc_connect", "gdc_recheck", "gdc_retry"}
InGdc == pc \in GdcPcs

\* ------------------------------------------------------------- driver
\* an object is referenced while the instance holds it in self.conn or through self.cursor
Referenced(k) == pc /= "dead" /\ (conn = k \/ cursor = k)

\* cursor.execute(stmt) on the cursor created from connection k: "ok" or "raise"
Execute(k, stmt) ==
    IF k = 0 THEN "raise"
    ELSE IF conns[k].status /= "open" \/ db = "down" THEN "raise"
    ELSE IF conns[k].aborted THEN "raise"
    ELSE IF stmt = "bad" THEN "raise"
    ELSE "ok"

\* the connections after cursor.execute(stmt) on k: an error inside a transaction aborts it
AfterExecute(k, stmt) ==
    IF k /= 0 /\ conns[k].status = "open" /\ db /= "down" /\ ~conns[k].aborted
       /\ stmt = "bad" /\ ~conns[k].autocommit
    THEN [conns EXCEPT ![k].aborted = TRUE]
    ELSE conns

\* the connection objects once only the ids in `held` are referenced: an object that
\* holds no session (broken or closed) is freed as soon as nothing refers to it, one
\* that still holds a session stays open until the collector finalizes it
Release(cs, held) ==
    [k \in ConnIds |-> IF k \in held THEN cs[k]
                       ELSE IF cs[k].status = "open" THEN Leaked ELSE NoConn]

\* ------------------------------------------------- check_db_connection
check_db_connection(c, cur) ==
    IF c = 0 \/ cur = 0 THEN PyBool(FALSE)
    ELSE IF Execute(cur, "version") = "raise" THEN PyBool(FALSE)
    ELSE IF db = "up" THEN PyBool(TRUE)
    ELSE PyNone

\* ------------------------------------------------------------ exec_sql
\* lines 149-168: the try block, given what the driver did
Returns(v) == [ret |-> v, exc |-> "none"]
Raises(e) == [ret |-> PyNone, exc |-> e]

\* mutant: fetchall outside the try block, so its exception reaches the caller
exec_sql_FetchUnguarded(execOut, fetchRaised, rows, sel) ==
    IF execOut = "raise" THEN Returns(PyInt(-2))
    ELSE IF ~sel THEN Returns(PyNone)
    ELSE IF fetchRaised THEN Raises("DriverError")
    ELSE IF Len(rows) = 0 THEN Returns(PyInt(-1))
    ELSE Returns(PyList(rows))

\* mutant: the empty-result test of lines 159-161 left out
exec_sql_NoEmptySentinel(execOut, fetchRaised, rows, sel) ==
    IF execOut = "raise" THEN Returns(PyInt(-2))
    ELSE IF ~sel THEN Returns(PyNone)
    ELSE IF fetchRaised THEN Returns(PyInt(-2))
    ELSE Returns(PyList(rows))

exec_sql(execOut, fetchRaised, rows, sel) ==
    IF execOut = "raise" THEN Returns(PyInt(-2))
    ELSE IF ~sel THEN Returns(PyNone)
    ELSE IF fetchRaised THEN Returns(PyInt(-2))
    ELSE IF Len(rows) = 0 THEN Returns(PyInt(-1))
    ELSE Returns(PyList(rows))

\* line 181: exec_sql(sql)[0][0]
get_terria_map_catalog_data(r) ==
    IF r.exc /= "none" THEN r
    ELSE IF r.ret.tag /= "list" THEN Raises("TypeError")
    ELSE IF Len(r.ret.rows) = 0 THEN Raises("IndexError")
    ELSE Returns(PyVal(r.ret.rows[1][1]))

\* ---------------------------------------------------------------- Init
InitProgram ==
    /\ db \in {"up", "down"}
    /\ outages = 0
    /\ validParams \in BOOLEAN
    /\ conns = [k \in ConnIds |-> NoConn]
    /\ pc = "new"
    /\ caller = "none"
    /\ conn = 0
    /\ cursor = 0
    /\ auto_commit = TRUE
    /\ good_conn = PyBool(FALSE)
    /\ sql_stmt = "none"
    /\ is_select = TRUE
    /\ lastOp = "none"
    /\ ret = PyNone
    /\ exc = "none"
    /\ execRet = PyNone
    /\ raised = FALSE
    /\ produced = <<>>
    /\ fails = 0
    /\ logs = 0
    /\ sleeps = 0
    /\ curCloseTried = FALSE
    /\ conCloseTried = FALSE
    /\ onLoop = 0
    /\ req = [r \in ReqIds |-> NoReq]
    /\ files = [f \in FileNames |-> Absent]

Init ==
    /\ InitProgram
    /\ query = NoQuery
    /\ hargs = NoQuery
    /\ statement = ""
    /\ hpc = "none"

envVars == <<db, outages, validParams, conns>>
callVars == <<sql_stmt, is_select>>
resVars == <<lastOp, ret, exc, execRet, raised, produced>>
loopVars == <<fails, logs, sleeps>>
delVars == <<curCloseTried, conCloseTried>>
buildVars == <<query, hargs, statement, hpc>>
srvVars == <<onLoop, req, files, buildVars>>
progVarsNoSrv == <<pc, caller, conn, cursor, auto_commit, good_conn, callVars, resVars, loopVars, delVars>>
progVars == <<progVarsNoSrv, srvVars>>

\* ------------------------------------------------------- environment
\* the server becomes unreachable: every session on it is lost
DbDown ==
    /\ db /= "down"
    /\ outages < MaxOutages
    /\ db' = "down"
    /\ outages' = IF db = "up" THEN outages + 1 ELSE outages
    /\ conns' = [k \in ConnIds |->
                    IF conns[k].status = "open"
                    THEN [conns[k] EXCEPT !.status = "broken"] ELSE conns[k]]
    /\ UNCHANGED <<validParams, progVars>>

\* the server keeps accepting connections but the version query yields no row
DbDegrade ==
    /\ db = "up"
    /\ outages < MaxOutages
    /\ db' = "degraded"
    /\ outages' = outages + 1
    /\ UNCHANGED <<validParams, conns, progVars>>

DbUp ==
    /\ db /= "up"
    /\ db' = "up"
    /\ UNCHANGED <<outages, validParams, conns, progVars>>

\* the garbage collector finalizes an unreferenced connection object, which closes
\* the session and frees the object
Finalize ==
    \E k \in ConnIds :
        /\ conns[k].status = "open"
        /\ ~Referenced(k)
        /\ conns' = [conns EXCEPT ![k] = NoConn]
        /\ UNCHANGED <<db, outages, validParams, progVars>>

\* ------------------------------------------------------------ __init__
EnterGdc(from) ==
    /\ pc' = "gdc_check"
    /\ caller' = from
    /\ good_conn' = PyBool(FALSE)
    /\ fails' = 0
    /\ logs' = 0
    /\ sleeps' = 0
    /\ lastOp' = "none"
    /\ ret' = PyNone
    /\ exc' = "none"
    /\ execRet' = PyNone
    /\ raised' = FALSE
    /\ produced' = <<>>

Construct ==
    /\ pc = "new"
    /\ \E ac \in BOOLEAN : auto_commit' = ac
    /\ conn' = 0
    /\ cursor' = 0
    /\ EnterGdc("init")
    /\ UNCHANGED <<envVars, callVars, delVars, srvVars>>

\* --------------------------------------------------- get_db_connection
\* the state get_db_connection returns in
GdcReturn ==
    /\ pc' = IF caller \in {"exec", "catalog"} THEN "exec_run" ELSE "idle"
    /\ lastOp' = IF caller \in {"exec", "catalog"} THEN lastOp ELSE caller
    /\ UNCHANGED <<ret, exc, execRet, raised, produced>>

\* mutant: the test of line 60 dropped, so the call returns whatever the check said
GdcCheck_ReturnsUnhealthy ==
    /\ pc = "gdc_check"
    /\ good_conn' = check_db_connection(conn, cursor)
    /\ GdcReturn
    /\ UNCHANGED <<envVars, caller, conn, cursor, auto_commit, callVars, loopVars, delVars, srvVars>>

\* mutant: the else branch of lines 77-79 dropped, so a healthy pair is replaced too
GdcCheck_AlwaysReconnect ==
    /\ pc = "gdc_check"
    /\ good_conn' = check_db_connection(conn, cursor)
    /\ pc' = "gdc_connect"
    /\ UNCHANGED <<envVars, caller, conn, cursor, auto_commit, callVars, resVars, loopVars, delVars, srvVars>>

\* lines 54-60 and 77-79: the health check at the head of an iteration
GdcCheck ==
    /\ pc = "gdc_check"
    /\ good_conn' = check_db_connection(conn, cursor)
    /\ IF Truthy(good_conn')
       THEN GdcReturn
       ELSE pc' = "gdc_connect" /\ UNCHANGED resVars
    /\ UNCHANGED <<envVars, caller, conn, cursor, auto_commit, callVars, loopVars, delVars, srvVars>>

\* the slots a new connection object can take: a free one, or else the slot of the
\* object only self.conn refers to, which the rebinding of line 62 lets go of
UnusedIds == {k \in ConnIds : conns[k].status /= "open" /\ ~Referenced(k)}
FreeIds == IF UnusedIds = {} /\ conn /= 0 /\ conn /= cursor THEN {conn} ELSE UnusedIds

\* mutant: no try/except around the connect, so a failed connect reaches the caller
GdcConnect_FailFast ==
    /\ pc = "gdc_connect"
    /\ \/ /\ db /= "down" /\ validParams
          /\ FreeIds /= {}
          /\ LET k == CHOOSE i \in FreeIds : \A j \in FreeIds : i <= j IN
                /\ conns' = Release([conns EXCEPT ![k] =
                                [status |-> "open", aborted |-> FALSE, autocommit |-> auto_commit]],
                                    {k})
                /\ conn' = k
                /\ cursor' = k
          /\ pc' = "gdc_recheck"
          /\ UNCHANGED <<good_conn, fails, resVars>>
       \/ /\ db = "down" \/ ~validParams
          /\ pc' = "idle"
          /\ lastOp' = caller
          /\ exc' = "DriverError"
          /\ UNCHANGED <<conns, conn, cursor, good_conn, fails, ret, execRet, raised, produced>>
    /\ UNCHANGED <<db, outages, validParams, caller, auto_commit, callVars, logs, sleeps, delVars, srvVars>>

\* lines 62-68: connect, set the commit mode, create the cursor; line 80-81 on an exception
GdcConnect ==
    /\ pc = "gdc_connect"
    /\ \/ /\ db /= "down" /\ validParams
          /\ FreeIds /= {}
          /\ LET k == CHOOSE i \in FreeIds : \A j \in FreeIds : i <= j IN
                /\ conns' = Release([conns EXCEPT ![k] =
                                [status |-> "open", aborted |-> FALSE, autocommit |-> auto_commit]],
                                    {k})
                /\ conn' = k
                /\ cursor' = k
          /\ pc' = "gdc_recheck"
          /\ UNCHANGED <<good_conn, fails>>
       \/ \* line 62 succeeds, then line 65 or line 68 raises: self.conn is already
          \* rebound, self.cursor is still the cursor of the previous connection
          /\ db /= "down" /\ validParams
          /\ FreeIds /= {}
          /\ fails < MaxRetries
          /\ LET k == CHOOSE i \in FreeIds : \A j \in FreeIds : i <= j IN
                /\ conns' = Release([conns EXCEPT ![k] =
                                [status |-> "open", aborted |-> FALSE, autocommit |-> FALSE]],
                                    {k, cursor})
                /\ conn' = k
          /\ good_conn' = PyBool(FALSE)
          /\ fails' = fails + 1
          /\ pc' = "gdc_retry"
          /\ UNCHANGED cursor
       \/ /\ db = "down" \/ ~validParams
          /\ fails < MaxRetries
          /\ good_conn' = PyBool(FALSE)
          /\ fails' = fails + 1
          /\ pc' = "gdc_retry"
          /\ UNCHANGED <<conns, conn, cursor>>
    /\ UNCHANGED <<db, outages, validParams, caller, auto_commit, callVars, resVars, logs, sleeps, delVars, srvVars>>

\* mutant: returns after the connect without the second health check
GdcRecheck_Unchecked ==
    /\ pc = "gdc_recheck"
    /\ good_conn' = PyBool(TRUE)
    /\ GdcReturn
    /\ UNCHANGED <<envVars, caller, conn, cursor, auto_commit, callVars, loopVars, delVars, srvVars>>

\* lines 70-76: the health check after the connect
GdcRecheck ==
    /\ pc = "gdc_recheck"
    /\ good_conn' = check_db_connection(conn, cursor)
    /\ IF Truthy(good_conn')
       THEN GdcReturn /\ UNCHANGED fails
       ELSE /\ good_conn' = PyNone => fails < MaxRetries
            /\ pc' = "gdc_retry"
            /\ fails' = fails + 1
            /\ UNCHANGED resVars
    /\ UNCHANGED <<envVars, caller, conn, cursor, auto_commit, callVars, logs, sleeps, delVars, srvVars>>

\* mutant: the retry line is logged but the loop does not sleep
GdcRetry_NoSleep ==
    /\ pc = "gdc_retry"
    /\ logs' = logs + 1
    /\ ~Truthy(good_conn)
    /\ pc' = "gdc_check"
    /\ UNCHANGED <<envVars, caller, conn, cursor, auto_commit, good_conn, callVars, resVars,
                   fails, sleeps, delVars, srvVars>>

\* lines 83-84: the retry log line and the sleep, then the loop test of line 54
GdcRetry ==
    /\ pc = "gdc_retry"
    /\ logs' = logs + 1
    /\ sleeps' = sleeps + 1
    /\ ~Truthy(good_conn)
    /\ pc' = "gdc_check"
    /\ UNCHANGED <<envVars, caller, conn, cursor, auto_commit, good_conn, callVars, resVars, fails, delVars, srvVars>>

GdcStep == GdcCheck \/ GdcConnect \/ GdcRecheck \/ GdcRetry

\* a direct call of get_db_connection on the constructed instance
CallGdc ==
    /\ pc = "idle"
    /\ EnterGdc("gdc")
    /\ UNCHANGED <<envVars, conn, cursor, auto_commit, callVars, delVars, srvVars>>

\* a direct call of check_db_connection on the constructed instance
CallCheck ==
    /\ pc = "idle"
    /\ ret' = check_db_connection(conn, cursor)
    /\ exc' = "none"
    /\ lastOp' = "check"
    /\ execRet' = PyNone
    /\ raised' = FALSE
    /\ produced' = <<>>
    /\ fails' = 0
    /\ logs' = 0
    /\ sleeps' = 0
    /\ UNCHANGED <<envVars, pc, caller, conn, cursor, auto_commit, good_conn, callVars, delVars, srvVars>>

\* ------------------------------------------------------------ exec_sql
\* lines 143-147: exec_sql(stmt, sel) starts by ensuring the connection
CallExec ==
    /\ pc = "idle"
    /\ \E stmt \in Stmts, sel \in BOOLEAN : sql_stmt' = stmt /\ is_select' = sel
    /\ EnterGdc("exec")
    /\ UNCHANGED <<envVars, conn, cursor, auto_commit, delVars, srvVars>>

\* lines 177-181: the catalog statement is a SELECT of the stored procedure; a filter
\* value containing a quote makes it malformed
CallCatalog ==
    /\ pc = "idle"
    /\ \E stmt \in {"select", "bad"} : sql_stmt' = stmt
    /\ is_select' = TRUE
    /\ EnterGdc("catalog")
    /\ UNCHANGED <<envVars, conn, cursor, auto_commit, delVars, srvVars>>

\* lines 149-168, and line 181 when called from get_terria_map_catalog_data
ExecRun ==
    /\ pc = "exec_run"
    /\ LET out == Execute(cursor, sql_stmt)
           fetches == out = "ok" /\ is_select
           fetchRaised == fetches /\ sql_stmt /= "select"
       IN \E rows \in (IF fetches /\ ~fetchRaised THEN Tables ELSE {<<>>}) :
            LET r == exec_sql(out, fetchRaised, rows, is_select)
                res == IF caller = "catalog" THEN get_terria_map_catalog_data(r) ELSE r
            IN /\ produced' = rows
               /\ raised' = (out = "raise" \/ fetchRaised)
               /\ execRet' = r.ret
               /\ ret' = res.ret
               /\ exc' = res.exc
    /\ conns' = AfterExecute(cursor, sql_stmt)
    /\ lastOp' = caller
    /\ pc' = "idle"
    /\ UNCHANGED <<db, outages, validParams, caller, conn, cursor, auto_commit, good_conn,
                   callVars, loopVars, delVars, srvVars>>

\* ------------------------------------------------------------- __del__
\* lines 126-133: cursor.close() then conn.close() in one try block
Teardown ==
    /\ pc = "idle"
    /\ \E curRaises \in BOOLEAN, conRaises \in BOOLEAN :
         LET curTried == cursor /= 0
             curFailed == curTried /\ curRaises
             conTried == ~curFailed /\ conn /= 0
         IN /\ curCloseTried' = curTried
            /\ conCloseTried' = conTried
            /\ conns' = Release(IF conTried /\ ~conRaises
                                THEN [conns EXCEPT ![conn].status = "closed"]
                                ELSE conns, {})
    /\ exc' = "none"
    /\ ret' = PyNone
    /\ lastOp' = "del"
    /\ execRet' = PyNone
    /\ raised' = FALSE
    /\ produced' = <<>>
    /\ fails' = 0
    /\ logs' = 0
    /\ sleeps' = 0
    /\ pc' = "dead"
    /\ UNCHANGED <<db, outages, validParams>>

\* the fields of the finalized object
instVars == <<caller, conn, cursor, auto_commit, good_conn, callVars>>

Del == Teardown /\ UNCHANGED <<instVars, srvVars>>

Next ==
    \/ DbDown
    \/ DbDegrade
    \/ DbUp
    \/ Finalize
    \/ Construct
    \/ GdcCheck
    \/ GdcConnect
    \/ GdcRecheck
    \/ GdcRetry
    \/ CallGdc
    \/ CallCheck
    \/ CallExec
    \/ CallCatalog
    \/ ExecRun
    \/ Del

Spec == Init /\ [][Next]_vars

\* a running thread keeps running and a sleep ends; the collector eventually runs
FairSpec == Spec /\ WF_vars(GdcStep) /\ WF_vars(ExecRun) /\ WF_vars(Finalize)

\* ------------------------------------------------------------ server.py
\* what the database did with the catalog statement of the running request
DbAnswer ==
    IF raised THEN PyStr("error")
    ELSE IF Len(produced) = 0 THEN PyStr("no rows")
    ELSE PyVal(produced[1][1])

\* line 98: the message the handler answers with after an exception
FailMsg == PyStr("Exception detected trying to get the terria map catalog data.")

\* mutant: line 104 dropped, so the failure message goes out with the initial status
ui_data_response_StatusKept(r) ==
    IF r.exc = "none"
    THEN [status |-> 200, body |-> JsonDump(r.ret)]
    ELSE [status |-> 200, body |-> JsonDump(FailMsg)]

\* lines 83-107: the JSONResponse of /get_ui_data for an outcome of the query layer
ui_data_response(r) ==
    IF r.exc = "none"
    THEN [status |-> 200, body |-> JsonDump(r.ret)]
    ELSE [status |-> 500, body |-> JsonDump(FailMsg)]

\* line 161: FileResponse(path, filename, media_type) is built without status_code, so
\* it carries the default 200 and the bytes the file holds when it is sent; a file
\* that does not exist makes the send fail, which the framework answers with a 500
FileResponse(content) ==
    IF content = Absent
    THEN [status |-> 500, body |-> PyStr("Internal Server Error")]
    ELSE [status |-> 200, body |-> content]

\* lines 63-85 and 111-144: the event loop starts the handler of a request, which
\* constructs its PGUtils with the default auto_commit
StartHandler(r, ep) ==
    /\ onLoop = 0
    /\ req[r].state = "pending"
    /\ \A q \in 1..(r - 1) : req[q].state /= "pending"
    /\ pc \in {"new", "dead"}
    /\ \E fn \in (IF ep = "file" THEN FileNames ELSE {"none"}) :
         req' = [req EXCEPT ![r] = [@ EXCEPT !.state = "running", !.ep = ep, !.file = fn]]
    /\ onLoop' = r
    /\ auto_commit' = TRUE
    /\ conn' = 0
    /\ cursor' = 0
    /\ curCloseTried' = FALSE
    /\ conCloseTried' = FALSE
    /\ EnterGdc("init")
    /\ UNCHANGED <<envVars, callVars, files, buildVars>>

\* lines 95 and 147: the handler calls get_terria_map_catalog_data once
HandlerQuery ==
    /\ onLoop /= 0
    /\ lastOp = "init"
    /\ CallCatalog

\* the local pg_db is gone when the handler has returned
Discard ==
    /\ caller' = "none"
    /\ conn' = 0
    /\ cursor' = 0
    /\ good_conn' = PyBool(FALSE)
    /\ sql_stmt' = "none"
    /\ UNCHANGED <<auto_commit, is_select>>

\* lines 96-107: /get_ui_data answers; pg_db goes out of scope
ReturnUiData(r) ==
    /\ onLoop = r
    /\ req[r].ep = "data"
    /\ lastOp = "catalog"
    /\ LET resp == ui_data_response([ret |-> ret, exc |-> exc])
       IN req' = [req EXCEPT ![r] = [@ EXCEPT !.state = "done", !.failed = exc /= "none",
                                              !.result = DbAnswer, !.status = resp.status,
                                              !.body = resp.body]]
    /\ onLoop' = 0
    /\ Teardown
    /\ Discard
    /\ UNCHANGED <<files, buildVars>>

\* lines 149-161: /get_ui_data_file writes the file unless an exception was raised
\* (open can raise too) and returns the FileResponse; pg_db goes out of scope
ReturnUiDataFile(r) ==
    /\ onLoop = r
    /\ req[r].ep = "file"
    /\ lastOp = "catalog"
    /\ \E openRaises \in (IF exc = "none" THEN BOOLEAN ELSE {FALSE}) :
         LET wrote == exc = "none" /\ ~openRaises
         IN /\ files' = IF wrote THEN [files EXCEPT ![req[r].file] = JsonDump(ret)] ELSE files
            /\ req' = [req EXCEPT ![r] = [@ EXCEPT !.state = "sending", !.failed = ~wrote,
                                                   !.result = DbAnswer]]
    /\ onLoop' = 0
    /\ Teardown
    /\ Discard
    /\ UNCHANGED buildVars

\* the framework sends a returned FileResponse when the event loop is free: it reads
\* the file at that time
SendFile(r) ==
    /\ onLoop = 0
    /\ req[r].state = "sending"
    /\ LET resp == FileResponse(files[req[r].file])
       IN req' = [req EXCEPT ![r] = [@ EXCEPT !.state = "done", !.status = resp.status,
                                              !.body = resp.body]]
    /\ UNCHANGED <<envVars, progVarsNoSrv, onLoop, files, buildVars>>

ServerNext ==
    \/ DbDown
    \/ DbDegrade
    \/ DbUp
    \/ Finalize
    \/ \E r \in ReqIds : StartHandler(r, "data")
    \/ \E r \in ReqIds : StartHandler(r, "file")
    \/ GdcCheck
    \/ GdcConnect
    \/ GdcRecheck
    \/ GdcRetry
    \/ HandlerQuery
    \/ ExecRun
    \/ \E r \in ReqIds : ReturnUiData(r)
    \/ \E r \in ReqIds : ReturnUiDataFile(r)
    \/ \E r \in ReqIds : SendFile(r)

ServerSpec == Init /\ [][ServerNext]_vars

\* the requests of /get_ui_data alone
UiDataNext ==
    \/ DbDown
    \/ DbDegrade
    \/ DbUp
    \/ Finalize
    \/ \E r \in ReqIds : StartHandler(r, "data")
    \/ GdcCheck
    \/ GdcConnect
    \/ GdcRecheck
    \/ GdcRetry
    \/ HandlerQuery
    \/ ExecRun
    \/ \E r \in ReqIds : ReturnUiData(r)

UiDataSpec == Init /\ [][UiDataNext]_vars

\* ------------------------------------------- the statement of a request
\* lines 63-68 and 111-117: a filter the request omits is None, an omitted limit is 4
BindQuery ==
    /\ hpc = "received"
    /\ hargs' = [a \in DOMAIN query |->
                   IF a = "ep" THEN query[a]
                   ELSE IF query[a] /= Omitted THEN query[a]
                   ELSE IF a = "limit" THEN PyInt(DefaultLimit) ELSE PyNone]
    /\ hpc' = "bound"
    /\ UNCHANGED <<envVars, progVarsNoSrv, onLoop, req, files, query, statement>>

\* mutant: tests for None instead of falsiness, so an empty filter is quoted
prep_NoneOnly(x) ==
    IF x = PyNone THEN PyStr("null") ELSE PyStr("'" \o x.s \o "'")

\* lines 88-92 and 136-140: 'null' if not x else f"'{x}'"
prep(x) ==
    IF x = PyNone \/ x = PyStr("") THEN PyStr("null") ELSE PyStr("'" \o x.s \o "'")

Prepped == [a \in DOMAIN hargs |-> IF a \in Filters THEN prep(hargs[a]) ELSE hargs[a]]

\* lines 88-92: /get_ui_data prepares its filters
PrepUiData ==
    /\ hpc = "bound"
    /\ hargs.ep = "data"
    /\ hargs' = Prepped
    /\ hpc' = "prepped"
    /\ UNCHANGED <<envVars, progVarsNoSrv, onLoop, req, files, query, statement>>

\* lines 136-140: /get_ui_data_file prepares its filters
PrepUiDataFile ==
    /\ hpc = "bound"
    /\ hargs.ep = "file"
    /\ hargs' = Prepped
    /\ hpc' = "prepped"
    /\ UNCHANGED <<envVars, progVarsNoSrv, onLoop, req, files, query, statement>>

\* what an f-string makes of a value
Format(v) == IF v.tag = "str" THEN v.s ELSE IF v.tag = "int" THEN ToString(v.n) ELSE "None"

\* line 178: the f-string of the catalog statement
terria_sql(grid_type, event_type, instance_name, run_date, end_date, limit) ==
    "SELECT public.get_terria_data_json(_grid_type:=" \o Format(grid_type)
        \o ", _event_type:=" \o Format(event_type)
        \o ", _instance_name:=" \o Format(instance_name)
        \o ", _run_date:=" \o Format(run_date)
        \o ", _end_date:=" \o Format(end_date)
        \o ", _limit:=" \o Format(limit) \o ")"

\* lines 95 and 147, then 178-181: the statement is built and handed to exec_sql
BuildStatement ==
    /\ hpc = "prepped"
    /\ statement' = terria_sql(hargs.grid_type, hargs.event_type, hargs.instance_name,
                               hargs.run_date, hargs.end_date, hargs.limit)
    /\ hpc' = "built"
    /\ UNCHANGED <<envVars, progVarsNoSrv, onLoop, req, files, query, hargs>>

BuildInit ==
    /\ InitProgram
    /\ db = "up"
    /\ validParams
    /\ query \in Queries
    /\ hargs = NoQuery
    /\ statement = ""
    /\ hpc = "received"

BuildNext ==
    \/ BindQuery
    \/ PrepUiData
    \/ PrepUiDataFile
    \/ BuildStatement

BuildSpec == BuildInit /\ [][BuildNext]_vars

TypeOK ==
    /\ db \in {"up", "down", "degraded"}
    /\ pc \in GdcPcs \cup {"new", "idle", "exec_run", "dead"}
    /\ conn \in 0..MaxConns
    /\ cursor \in 0..MaxConns

\* ---------------------------------------------------------------- claims
OpenConns == {k \in ConnIds : conns[k].status = "open"}
Healthy == check_db_connection(conn, cursor) = PyBool(TRUE)
Up == db = "up"

\* C1: at most one connection opened by the instance is open (opened and not closed)
\* in every reachable state; in particular no earlier connection is still open when
\* get_db_connection has opened a replacement.
C1_OneLivePair == Cardinality(OpenConns) <= 1

\* C2: get_terria_map_catalog_data returns the first column of the first row when
\* exec_sql returned rows, and returns exec_sql's sentinel (-1, -2) unchanged, without
\* raising, when it did not.
C2_CatalogPropagatesSentinel ==
    (pc = "idle" /\ lastOp = "catalog") =>
        /\ exc = "none"
        /\ execRet.tag = "list" => ret = PyVal(execRet.rows[1][1])
        /\ execRet.tag /= "list" => ret = execRet

\* C3: exec_sql never raises to its caller: whenever the driver raised while executing
\* the statement or fetching its rows, exec_sql returned -2.
C3_ExecNeverRaises ==
    (pc = "idle" /\ lastOp \in {"exec", "catalog"}) =>
        /\ lastOp = "exec" => exc = "none"
        /\ exc \in {"none", "TypeError"}
        /\ raised => execRet = PyInt(-2)

\* C3 witness: a fetch from a statement that produced no result set came back as -2
C3_Witness ==
    /\ pc = "idle" /\ lastOp = "exec"
    /\ sql_stmt = "dml" /\ is_select /\ raised
    /\ conns[cursor].status = "open"
    /\ ret = PyInt(-2) /\ exc = "none"

\* C4: after exec_sql returned -2 for a malformed statement with the database
\* reachable, the existing connection/cursor pair still passes the health check,
\* whatever auto_commit is.
C4_HealthyAfterError ==
    (/\ pc = "idle" /\ lastOp = "exec" /\ sql_stmt = "bad" /\ ret = PyInt(-2)
     /\ Up /\ conn /= 0 /\ conns[conn].status = "open") => Healthy

\* C5: a SELECT that executed without error returns -1 when it fetched no row (not the
\* empty list, not -2), and otherwise exactly the rows the database produced, in order.
C5_SelectResult ==
    (pc = "idle" /\ lastOp = "exec" /\ is_select /\ ~raised) =>
        IF produced = <<>>
        THEN ret = PyInt(-1) /\ ret /= PyInt(-2) /\ ret /= PyList(<<>>)
        ELSE ret = PyList(produced)

\* C5 witness: two different rows came back in the order produced
C5_Witness ==
    /\ pc = "idle" /\ lastOp = "exec" /\ is_select /\ ~raised
    /\ Len(produced) = 2 /\ produced[1] /= produced[2]
    /\ ret = PyList(produced)

\* C6: with valid parameters and the database reachable throughout, get_db_connection
\* returns, and in the state it returns in the health check passes on the current pair.
C6_ReachableTerminatesHealthy ==
    /\ [][(InGdc /\ ~InGdc') => Healthy']_vars
    /\ []((InGdc /\ validParams /\ []Up) => <>(~InGdc))

\* C6 witness: the constructor returned after a first attempt that succeeded
C6_Witness ==
    /\ pc = "idle" /\ lastOp = "init" /\ validParams
    /\ fails = 0 /\ conn /= 0 /\ Healthy

\* one retry line and one sleep for every failed iteration, before the next attempt
LoopAccounting ==
    /\ pc \in {"gdc_check", "gdc_connect", "gdc_recheck"} => logs = fails /\ sleeps = fails
    /\ pc = "gdc_retry" => logs + 1 = fails /\ sleeps + 1 = fails

\* C7: while the database stays unreachable get_db_connection neither returns nor
\* raises, and every failed iteration is followed by exactly one retry log line and one
\* sleep before the next attempt.
C7_BlocksWhileUnreachable ==
    /\ []LoopAccounting
    /\ [][(InGdc /\ db = "down" /\ db' = "down") => (InGdc' /\ exc' = "none")]_vars
    /\ [][(pc = "gdc_retry" /\ pc' /= pc) =>
            (pc' = "gdc_check" /\ logs' = logs + 1 /\ sleeps' = sleeps + 1)]_vars

\* C7 witness: two failed iterations against an unreachable database, still looping
C7_Witness ==
    /\ pc = "gdc_check" /\ db = "down" /\ outages = 0
    /\ fails >= 2 /\ logs = fails /\ sleeps = fails

\* C8: if the database becomes reachable and stays reachable, get_db_connection
\* eventually returns, with a pair the health check found good; it never raises.
C8_ReturnsOnceReachable ==
    /\ [][InGdc => (exc' = "none" /\ (~InGdc' => Truthy(good_conn')))]_vars
    /\ []((InGdc /\ validParams /\ <>[]Up) => <>(~InGdc))

\* C8 witness: a call that found the database unreachable returned later, healthy
C8_Witness ==
    /\ pc = "idle" /\ lastOp \in {"init", "gdc"} /\ exc = "none"
    /\ fails >= 1 /\ Healthy

\* C9: check_db_connection returns a boolean in every case.
BoolVals == {PyBool(TRUE), PyBool(FALSE)}
C9_CheckReturnsBool ==
    /\ lastOp = "check" => ret \in BoolVals
    /\ good_conn \in BoolVals

\* C10: teardown attempts to close the connection whenever the instance holds one,
\* even if closing the cursor raised.
C10_TeardownClosesConn ==
    (pc = "dead" /\ conn /= 0) => conCloseTried

\* the requests of an endpoint that have been answered
Answered(ep) == {r \in ReqIds : req[r].state = "done" /\ req[r].ep = ep}

\* C11: /get_ui_data_file answers 200 when the query and the file write succeeded and
\* 500 whenever an exception occurred in the handler.
C11_FileStatus ==
    \A r \in Answered("file") :
        /\ ~req[r].failed => req[r].status = 200
        /\ req[r].failed => req[r].status = 500

\* C12: /get_ui_data answers 200 with the stored procedure's JSON value exactly when
\* the query produced row data without an exception, and 500 with the fixed failure
\* message whenever an exception was raised in the handler (which the empty result and
\* the execution error both end in); the status is always 200 or 500.
C12_UiDataResponse ==
    \A r \in Answered("data") :
        /\ req[r].status \in {200, 500}
        /\ req[r].status = 200 <=> req[r].result.tag = "val"
        /\ req[r].status = 200 => (~req[r].failed /\ req[r].body = JsonDump(req[r].result))
        /\ req[r].status = 500 => (req[r].failed /\ req[r].body = JsonDump(FailMsg))

\* one request answered with data, another after the query came back without rows
C12_Witness ==
    \E r \in Answered("data"), q \in Answered("data") :
        /\ req[r].result.tag = "val" /\ req[r].status = 200
        /\ req[q].result = PyStr("no rows") /\ req[q].status = 500

\* C13: every successful /get_ui_data_file request delivers exactly the JSON the
\* stored procedure returned for that request, whatever other requests do meanwhile.
C13_OwnJson ==
    \A r \in Answered("file") :
        ~req[r].failed => req[r].body = JsonDump(req[r].result)

\* a request the event loop has not given a step yet, and the steps it waits for
Waiting(r) == req[r].state = "sending" \/
              (req[r].state = "pending" /\ \A q \in 1..(r - 1) : req[q].state /= "pending")
StepOf(r) == StartHandler(r, "data") \/ StartHandler(r, "file") \/ SendFile(r)

\* C14: while a request sleeps in the retry loop of get_db_connection, the other
\* requests can make progress.
C14_OthersNotStarved ==
    \A r \in ReqIds :
        (onLoop \notin {0, r} /\ InGdc /\ sleeps >= 1 /\ Waiting(r)) => ENABLED StepOf(r)

\* the argument the statement has to carry for a filter of the query string
Literal(q) == IF q = Omitted \/ q = PyStr("") THEN "null" ELSE "'" \o q.s \o "'"
LimitText(q) == IF q = Omitted THEN "4" ELSE ToString(q.n)

\* C15: for both endpoints the statement handed to exec_sql carries each filter as the
\* literal null when the request omits it or leaves it empty and as its value in single
\* quotes otherwise, and the limit as given, 4 when omitted.
C15_StatementArgs ==
    hpc = "built" =>
        statement = "SELECT public.get_terria_data_json(_grid_type:=" \o Literal(query.grid_type)
                        \o ", _event_type:=" \o Literal(query.event_type)
                        \o ", _instance_name:=" \o Literal(query.instance_name)
                        \o ", _run_date:=" \o Literal(query.run_date)
                        \o ", _end_date:=" \o Literal(query.end_date)
                        \o ", _limit:=" \o LimitText(query.limit) \o ")"

\* a request without any parameter: five nulls and the limit 4
C15_Witness ==
    /\ hpc = "built"
    /\ \A a \in Filters \cup {"limit"} : query[a] = Omitted
    /\ statement = "SELECT public.get_terria_data_json(_grid_type:=null, _event_type:=null, _instance_name:=null, _run_date:=null, _end_date:=null, _limit:=4)"

\* C16: when exec_sql is about to execute the caller's statement, the most recent
\* health check of the current pair returned true and the pair exists.
C16_ExecOnCheckedPair ==
    pc = "exec_run" => (Truthy(good_conn) /\ conn /= 0 /\ cursor /= 0)

\* C16 witness: exec_sql reaches its statement after a reconnect inside the call
C16_Witness ==
    /\ pc = "exec_run" /\ caller = "exec" /\ fails >= 1
    /\ Truthy(good_conn)

\* C17: a get_db_connection step that finds the pair healthy returns at once and
\* changes neither self.conn, self.cursor nor any connection, logs nothing and does
\* not sleep.
C17_HealthyReturnsUnchanged ==
    [][(pc = "gdc_check" /\ Healthy /\ pc' /= pc) =>
         /\ ~InGdc'
         /\ conn' = conn /\ cursor' = cursor /\ conns' = conns
         /\ logs' = logs /\ sleeps' = sleeps /\ fails' = fails]_vars

\* C17 witness: a direct call on a healthy instance returned without a retry
C17_Witness ==
    /\ pc = "idle" /\ lastOp = "gdc" /\ Healthy
    /\ conn = 1 /\ cursor = 1 /\ conns[2] = NoConn
    /\ fails = 0 /\ logs = 0 /\ sleeps = 0

\* C18: whenever self.conn and self.cursor are both set, the cursor was created from
\* the current connection; in particular get_db_connection never returns with a new
\* connection paired with a cursor of the previous one.
C18_CursorOfCurrentConn ==
    (conn /= 0 /\ cursor /= 0 /\ pc \in {"idle", "exec_run"}) => cursor = conn

====
